---- MODULE Spec2Model ----
(***************************************************************************)
(* bbl2bib: the BBL parser (src/parser/bbl_parser.py).                     *)
(*                                                                         *)
(* A Python str is modelled as a sequence of one-character strings, so     *)
(* that every regular expression, split, strip and substring test of the   *)
(* parser is computed character by character.  The en dash and the em dash *)
(* of pages_pattern are the atoms "<en>" and "<em>", the double quote of   *)
(* the title's quote pattern is the atom "<dq>", the backquote "<bq>".     *)
(***************************************************************************)
EXTENDS Integers, Sequences, FiniteSets, TLC

(***************************************************************************)
(* Characters and the str methods the parser calls.                        *)
(***************************************************************************)
UpperSeq ==
  <<"A","B","C","D","E","F","G","H","I","J","K","L","M",
    "N","O","P","Q","R","S","T","U","V","W","X","Y","Z">>
LowerSeq ==
  <<"a","b","c","d","e","f","g","h","i","j","k","l","m",
    "n","o","p","q","r","s","t","u","v","w","x","y","z">>
UpperSet == {UpperSeq[k] : k \in DOMAIN UpperSeq}
LowerSet == {LowerSeq[k] : k \in DOMAIN LowerSeq}
DigitSet == {"0","1","2","3","4","5","6","7","8","9"}
\* \s of the re module, and the characters str.split() and str.strip() drop
SpaceSet == {" ", "\t", "\n", "\r"}
\* \w of the re module (what \b is defined from)
WordSet  == UpperSet \cup LowerSet \cup DigitSet \cup {"_"}

LowerMap == [c \in UpperSet |-> LowerSeq[CHOOSE k \in DOMAIN UpperSeq : UpperSeq[k] = c]]
LowerChar(c) == IF c \in UpperSet THEN LowerMap[c] ELSE c
\* str.lower()
lower(s) == [k \in DOMAIN s |-> LowerChar(s[k])]

\* None
None == <<"<None>">>

\* sub in s
Contains(sub, s) ==
  \E k \in 1..(Len(s) - Len(sub) + 1) : SubSeq(s, k, k + Len(sub) - 1) = sub

\* s.find(c) for a one-character c, as Python counts (0-based, -1 when absent)
find(s, c) ==
  IF \E k \in DOMAIN s : s[k] = c
  THEN (CHOOSE k \in DOMAIN s : s[k] = c /\ \A j \in 1..(k-1) : s[j] # c) - 1
  ELSE -1

\* s.lstrip(cs), s.rstrip(cs), s.strip()
RECURSIVE lstrip(_, _)
lstrip(s, cs) == IF s # <<>> /\ Head(s) \in cs THEN lstrip(Tail(s), cs) ELSE s
RECURSIVE rstrip(_, _)
rstrip(s, cs) ==
  IF s # <<>> /\ s[Len(s)] \in cs THEN rstrip(SubSeq(s, 1, Len(s) - 1), cs) ELSE s
strip(s) == rstrip(lstrip(s, SpaceSet), SpaceSet)

\* s.split(c) for a one-character separator: the list of the parts
RECURSIVE split_on(_, _)
split_on(s, c) ==
  LET p == find(s, c)
  IN  IF p < 0 THEN <<s>>
      ELSE <<SubSeq(s, 1, p)>> \o split_on(SubSeq(s, p + 2, Len(s)), c)

\* s.split(): the maximal runs of non-whitespace characters
RECURSIVE split_ws(_)
split_ws(s) ==
  LET t == lstrip(s, SpaceSet)
  IN  IF t = <<>> THEN <<>>
      ELSE LET n == IF \E k \in DOMAIN t : t[k] \in SpaceSet
                    THEN (CHOOSE k \in DOMAIN t :
                            t[k] \in SpaceSet /\ \A j \in 1..(k-1) : t[j] \notin SpaceSet) - 1
                    ELSE Len(t)
           IN  <<SubSeq(t, 1, n)>> \o split_ws(SubSeq(t, n + 1, Len(t)))

\* sep.join(parts)
RECURSIVE join(_, _)
join(sep, parts) ==
  IF parts = <<>> THEN <<>>
  ELSE IF Len(parts) = 1 THEN parts[1]
  ELSE parts[1] \o sep \o join(sep, Tail(parts))

\* s.replace(a, b) for one-character a and b
replace(s, a, b) == [k \in DOMAIN s |-> IF s[k] = a THEN b ELSE s[k]]

(***************************************************************************)
(* Regular expressions: a pattern is a tree of nodes.  Ends lists the ways *)
(* a node matches at a position in the order the backtracking matcher of   *)
(* the re module tries them (alternatives left to right, greedy repetition *)
(* longest first), so that the first way of the list is the match the      *)
(* matcher returns.  Every repeated sub-pattern of the parser consumes at  *)
(* least one character.                                                    *)
(***************************************************************************)
Node(op, cs, rs, n) == [op |-> op, cs |-> cs, rs |-> rs, n |-> n]
Cls(cs)    == Node("in", cs, <<>>, 1)          \* [...]
NCls(cs)   == Node("notin", cs, <<>>, 1)       \* [^...]
Lit(s)     == Node("lit", {}, s, 0)            \* the characters of s
\* r1 r2 ...: a concatenation inside a concatenation is written out in it
RECURSIVE Spliced(_)
Spliced(rs) ==
  IF rs = <<>> THEN <<>>
  ELSE (IF Head(rs).op = "cat" THEN Head(rs).rs ELSE <<Head(rs)>>) \o Spliced(Tail(rs))
Cat(rs)    == Node("cat", {}, Spliced(rs), 0)
Alt(rs)    == Node("alt", {}, rs, 0)           \* r1 | r2 | ...
\* r* and r+: of a character class, a run of at least n characters of it
Star(r)    == IF r.op \in {"in", "notin"} THEN Node("run", {}, <<r>>, 0)
              ELSE Node("star", {}, <<r>>, 0)
Plus(r)    == IF r.op \in {"in", "notin"} THEN Node("run", {}, <<r>>, 1)
              ELSE Cat(<<r, Star(r)>>)
Opt(r)     == Alt(<<r, Cat(<<>>)>>)            \* r?
Grp(n, r)  == Node("grp", {}, <<r>>, n)        \* ( r ), group n
WordB      == Node("wb", {}, <<>>, 0)          \* \b
Bol        == Node("bol", {}, <<>>, 0)         \* ^

NoCaps == << <<0, 0>>, <<0, 0>> >>
Fail   == [ok |-> FALSE, start |-> 0, end |-> 0, caps |-> NoCaps]

\* does character c belong to the class of node r (ic: re.IGNORECASE)
InClass(c, r, ic) ==
  IF r.op = "notin" THEN c \notin r.cs
  ELSE c \in r.cs \/ (ic /\ \E d \in r.cs : LowerChar(d) = LowerChar(c))

\* are the characters of lit at position i of s
LitAt(lit, s, i, ic) ==
  /\ i + Len(lit) - 1 <= Len(s)
  /\ \A k \in DOMAIN lit :
       s[i + k - 1] = lit[k] \/ (ic /\ LowerChar(s[i + k - 1]) = LowerChar(lit[k]))

\* the length of the longest run of characters of class r from position i of s
RunLen(r, s, i, ic) ==
  LET stops == {k \in i..Len(s) : ~ InClass(s[k], r, ic)}
  IN  IF stops = {} THEN Len(s) - i + 1
      ELSE (CHOOSE k \in stops : \A j \in stops : k <= j) - i

IsWordAt(s, k) == k >= 1 /\ k <= Len(s) /\ s[k] \in WordSet

\* the lists of a list, one after the other
Flatten(ss) ==
  LET idx == UNION {{<<j, m>> : m \in DOMAIN ss[j]} : j \in DOMAIN ss}
      Rank(p) == Cardinality({q \in idx : q[1] < p[1] \/ (q[1] = p[1] /\ q[2] < p[2])})
      at == [p \in idx |-> Rank(p) + 1]
  IN  [k \in 1..Cardinality(idx) |->
         LET p == CHOOSE p \in idx : at[p] = k IN ss[p[1]][p[2]]]

\* a way to match: where it ends and the groups it captured
Way(end, caps) == [end |-> end, caps |-> caps]

\* the ways of a run of n down to least characters from position i
RunWays(n, least, i, caps) == [j \in 1..(n - least + 1) |-> Way(i + n - j + 1, caps)]

\* the ways of a group: those of its content, the group n captured from i
Captured(ways, n, i) ==
  [k \in DOMAIN ways |->
     Way(ways[k].end, [ways[k].caps EXCEPT ![n] = <<i, ways[k].end>>])]

\* Ends(r, s, ways, ic): the ways node r matches in s after each of the ways
\* already found, a way being where the match has come to (a position of s,
\* 1-based) and what it has captured; EndsSeq: the ways the nodes rs match one
\* after the other; EndsAlt: the ways the alternatives rs match, the first
\* alternative's ways first
RECURSIVE Ends(_, _, _, _), EndsSeq(_, _, _, _), EndsAlt(_, _, _, _)
Ends(r, s, ways, ic) ==
  LET i    == ways[1].end
      caps == ways[1].caps
  IN  CASE Len(ways) # 1 ->
             Flatten([k \in DOMAIN ways |-> Ends(r, s, <<ways[k]>>, ic)])
        [] r.op \in {"in", "notin"} ->
             IF i <= Len(s) /\ InClass(s[i], r, ic) THEN <<Way(i + 1, caps)>> ELSE <<>>
        [] r.op = "lit" ->
             IF LitAt(r.rs, s, i, ic) THEN <<Way(i + Len(r.rs), caps)>> ELSE <<>>
        [] r.op = "run" -> RunWays(RunLen(r.rs[1], s, i, ic), r.n, i, caps)
        [] r.op = "cat" -> EndsSeq(r.rs, s, ways, ic)
        [] r.op = "alt" -> EndsAlt(r.rs, s, ways, ic)
        [] r.op = "star" -> Ends(r, s, Ends(r.rs[1], s, ways, ic), ic) \o ways
        [] r.op = "grp" -> Captured(Ends(r.rs[1], s, ways, ic), r.n, i)
        [] r.op = "wb" -> IF IsWordAt(s, i - 1) # IsWordAt(s, i) THEN ways ELSE <<>>
        [] r.op = "bol" -> IF i = 1 THEN ways ELSE <<>>
EndsSeq(rs, s, ways, ic) ==
  IF rs = <<>> \/ ways = <<>> THEN ways
  ELSE EndsSeq(Tail(rs), s, Ends(Head(rs), s, ways, ic), ic)
EndsAlt(rs, s, ways, ic) ==
  IF rs = <<>> THEN <<>>
  ELSE Ends(Head(rs), s, ways, ic) \o EndsAlt(Tail(rs), s, ways, ic)

\* the match object of the first of the ways found from position start
FirstWay(ways, start) ==
  IF ways = <<>> THEN Fail
  ELSE [ok |-> TRUE, start |-> start, end |-> ways[1].end, caps |-> ways[1].caps]
MatchAt(r, s, start, ic) == FirstWay(Ends(r, s, <<Way(start, NoCaps)>>, ic), start)

\* pattern.match(s): anchored at the start
re_match(r, s, ic) == MatchAt(r, s, 1, ic)

\* the first successful match of a list of attempts, Fail when there is none
FirstOk(ms) ==
  IF \A k \in DOMAIN ms : ~ ms[k].ok THEN Fail
  ELSE ms[CHOOSE k \in DOMAIN ms : ms[k].ok /\ \A j \in 1..(k - 1) : ~ ms[j].ok]

\* pattern.search(s): the leftmost match (no pattern of the parser matches
\* the empty string)
re_search(r, s, ic) ==
  IF s = <<>> THEN Fail
  ELSE FirstOk([st \in 1..Len(s) |-> MatchAt(r, s, st, ic)])

\* match.group(0), and match.group(n) (None when group n took no part)
group0(s, m)   == SubSeq(s, m.start, m.end - 1)
group(s, m, n) ==
  IF m.caps[n][1] = 0 THEN None ELSE SubSeq(s, m.caps[n][1], m.caps[n][2] - 1)

\* pattern.sub(repl, s) for a constant repl, and for repl = r'\1'
\* (SubConstFrom and SubGroup1From: the text from the leftmost match m on)
RECURSIVE re_sub_const(_, _, _, _), SubConstFrom(_, _, _, _, _)
re_sub_const(r, repl, s, ic) ==
  IF s = <<>> THEN s ELSE SubConstFrom(r, repl, s, ic, re_search(r, s, ic))
SubConstFrom(r, repl, s, ic, m) ==
  IF ~m.ok THEN s
  ELSE SubSeq(s, 1, m.start - 1) \o repl
       \o re_sub_const(r, repl, SubSeq(s, m.end, Len(s)), ic)
RECURSIVE re_sub_group1(_, _, _), SubGroup1From(_, _, _, _)
re_sub_group1(r, s, ic) ==
  IF s = <<>> THEN s ELSE SubGroup1From(r, s, ic, re_search(r, s, ic))
SubGroup1From(r, s, ic, m) ==
  IF ~m.ok THEN s
  ELSE SubSeq(s, 1, m.start - 1) \o group(s, m, 1)
       \o re_sub_group1(r, SubSeq(s, m.end, Len(s)), ic)

\* pattern.split(s) for a pattern with two groups: the text before each match,
\* then the match's two groups, and at the end the text after the last match
RECURSIVE re_split2(_, _), SplitFrom(_, _, _)
re_split2(r, s) == SplitFrom(r, s, re_search(r, s, FALSE))
SplitFrom(r, s, m) ==
  IF ~m.ok THEN <<s>>
  ELSE <<SubSeq(s, 1, m.start - 1), group(s, m, 1), group(s, m, 2)>>
       \o re_split2(r, SubSeq(s, m.end, Len(s)))

\* m.group(0), m.group(1) of an Optional match m, None when there is no match
Group0Of(s, m) == IF m.ok THEN group0(s, m) ELSE None
Group1Of(s, m) == IF m.ok THEN group(s, m, 1) ELSE None

(***************************************************************************)
(* BBLParser.__init__: the compiled patterns.  The re.IGNORECASE flag of a *)
(* pattern is passed where the pattern is used.                            *)
(***************************************************************************)
\* \\bibitem(?:\[([^\]]*)\])?\{([^}]+)\}
bibitem_pattern ==
  Cat(<< Lit(<<"\\","b","i","b","i","t","e","m">>),
         Opt(Cat(<<Cls({"["}), Grp(1, Star(NCls({"]"}))), Cls({"]"})>>)),
         Cls({"{"}), Grp(2, Plus(NCls({"}"}))), Cls({"}"}) >>)
\* \\newblock\s*
newblock_pattern == Cat(<<Lit(<<"\\","n","e","w","b","l","o","c","k">>), Star(Cls(SpaceSet))>>)
\* \\emph\{([^}]+)\}   \\textit\{([^}]+)\}   \\textbf\{([^}]+)\}
Braced(cmd) == Cat(<<Lit(cmd), Cls({"{"}), Grp(1, Plus(NCls({"}"}))), Cls({"}"})>>)
emph_pattern   == Braced(<<"\\","e","m","p","h">>)
textit_pattern == Braced(<<"\\","t","e","x","t","i","t">>)
textbf_pattern == Braced(<<"\\","t","e","x","t","b","f">>)
\* \b(19|20)\d{2}\b
year_pattern ==
  Cat(<< WordB, Grp(1, Alt(<<Lit(<<"1","9">>), Lit(<<"2","0">>)>>)),
         Cls(DigitSet), Cls(DigitSet), WordB >>)
\* \b(\d+)\s*[-<en><em>]\s*(\d+)\b
pages_pattern ==
  Cat(<< WordB, Grp(1, Plus(Cls(DigitSet))), Star(Cls(SpaceSet)),
         Cls({"-", "<en>", "<em>"}), Star(Cls(SpaceSet)),
         Grp(2, Plus(Cls(DigitSet))), WordB >>)
\* \bvolume\s+(\d+)\b, re.IGNORECASE
volume_pattern ==
  Cat(<< WordB, Lit(<<"v","o","l","u","m","e">>), Plus(Cls(SpaceSet)), Grp(1, Plus(Cls(DigitSet))), WordB >>)
\* \bnumber\s+(\d+)\b, re.IGNORECASE
number_pattern ==
  Cat(<< WordB, Lit(<<"n","u","m","b","e","r">>), Plus(Cls(SpaceSet)), Grp(1, Plus(Cls(DigitSet))), WordB >>)
\* (?:doi:\s*|https?://doi\.org/)([^\s,]+), re.IGNORECASE
doi_pattern ==
  Cat(<< Alt(<< Cat(<<Lit(<<"d","o","i",":">>), Star(Cls(SpaceSet))>>),
                Cat(<<Lit(<<"h","t","t","p">>), Opt(Cls({"s"})), Lit(<<":","/","/","d","o","i",".","o","r","g","/">>)>>) >>),
         Grp(1, Plus(NCls(SpaceSet \cup {","}))) >>)
\* https?://[^\s,]+
url_pattern ==
  Cat(<< Lit(<<"h","t","t","p">>), Opt(Cls({"s"})), Lit(<<":","/","/">>), Plus(NCls(SpaceSet \cup {","})) >>)
\* ISBN[:\s]+([0-9X-]+), re.IGNORECASE
isbn_pattern ==
  Cat(<< Lit(<<"I","S","B","N">>), Plus(Cls(SpaceSet \cup {":"})),
         Grp(1, Plus(Cls(DigitSet \cup {"X", "-"}))) >>)

(***************************************************************************)
(* BBLParser._clean_text                                                   *)
(***************************************************************************)
_clean_text(text) ==
  LET t1 == re_sub_const(newblock_pattern, <<" ">>, text, FALSE)
      t2 == re_sub_group1(emph_pattern, t1, FALSE)
      t3 == re_sub_group1(textit_pattern, t2, FALSE)
      t4 == re_sub_group1(textbf_pattern, t3, FALSE)
      t5 == join(<<" ">>, split_ws(t4))
      t6 == rstrip(t5, {"."})
  IN  strip(t6)

(***************************************************************************)
(* BBLParser._detect_entry_type and its two vocabulary checks              *)
(***************************************************************************)
_has_journal_indicators(text) ==
  LET indicators == << <<"j","o","u","r","n","a","l">>, <<"v","o","l",".">>, <<"v","o","l","u","m","e">>,
                       <<"p","p",".">>, <<"p","a","g","e","s">>, <<"i","s","s","u","e">> >>
      text_lower == lower(text)
  IN  \E k \in DOMAIN indicators : Contains(indicators[k], text_lower)

_has_book_indicators(text) ==
  LET indicators == << <<"p","u","b","l","i","s","h","e","r">>, <<"p","r","e","s","s">>, <<"i","s","b","n">>, <<"e","d","i","t","i","o","n">> >>
      text_lower == lower(text)
  IN  \E k \in DOMAIN indicators : Contains(indicators[k], text_lower)

\* line 124: 'in:' in text or 'In ' in text and ('editor' in text_lower or
\* 'eds.' in text_lower); the first two tests read text, not text_lower
InCollectionCue(text) ==
  LET text_lower == lower(text)
  IN  \/ Contains(<<"i","n",":">>, text)
      \/ /\ Contains(<<"I","n"," ">>, text)
         /\ \/ Contains(<<"e","d","i","t","o","r">>, text_lower)
            \/ Contains(<<"e","d","s",".">>, text_lower)

\* the condition of the n-th branch of the if/elif chain, lines 116 to 130
BranchCond(n, text) ==
  LET text_lower == lower(text)
  IN  CASE n = 1 -> \/ Contains(<<"p","h","d"," ","t","h","e","s","i","s">>, text_lower)
                    \/ Contains(<<"d","o","c","t","o","r","a","l"," ","d","i","s","s","e","r","t","a","t","i","o","n">>, text_lower)
        [] n = 2 -> /\ Contains(<<"m","a","s","t","e","r">>, text_lower)
                    /\ Contains(<<"t","h","e","s","i","s">>, text_lower)
        [] n = 3 -> \/ Contains(<<"t","e","c","h","n","i","c","a","l"," ","r","e","p","o","r","t">>, text_lower)
                    \/ Contains(<<"t","e","c","h","."," ","r","e","p",".">>, text_lower)
        [] n = 4 -> \/ Contains(<<"i","n"," ","p","r","o","c","e","e","d","i","n","g","s">>, text_lower)
                    \/ Contains(<<"c","o","n","f","e","r","e","n","c","e">>, text_lower)
        [] n = 5 -> InCollectionCue(text)
        [] n = 6 -> _has_journal_indicators(text)
        [] n = 7 -> \/ Contains(<<"h","t","t","p">>, text_lower)
                    \/ Contains(<<"w","w","w",".">>, text_lower)
        [] n = 8 -> _has_book_indicators(text)

\* the number of branches that test a condition; the else branch comes after them
LastBranch == 8

\* the branch the chain takes: the first whose condition holds, else the else branch
FirstTaken(taken) ==
  IF taken = {} THEN LastBranch + 1
  ELSE CHOOSE n \in taken : \A m \in taken : n <= m
Branch(text) == FirstTaken({n \in 1..LastBranch : BranchCond(n, text)})

\* the else branch with a default outside the entry types
FallbackType_Unknown(text) ==
  IF re_search(volume_pattern, text, TRUE).ok \/ re_search(pages_pattern, text, FALSE).ok
  THEN "article"
  ELSE "unknown"

\* the else branch, lines 133 to 136
FallbackType(text) ==
  IF re_search(volume_pattern, text, TRUE).ok \/ re_search(pages_pattern, text, FALSE).ok
  THEN "article"
  ELSE "misc"

\* what branch n returns
BranchType(n, text) ==
  CASE n = 1 -> "phdthesis"
    [] n = 2 -> "mastersthesis"
    [] n = 3 -> "techreport"
    [] n = 4 -> "inproceedings"
    [] n = 5 -> "incollection"
    [] n = 6 -> "article"
    [] n = 7 -> "misc"
    [] n = 8 -> "book"
    [] OTHER -> FallbackType(text)

_detect_entry_type(text) == BranchType(Branch(text), text)

(***************************************************************************)
(* BBLParser._extract_authors                                              *)
(***************************************************************************)
\* the condition written "if x is not None:", which lets '' through
Truthy_NotNone(v) == v # None

\* a Python condition "if x:" on an Optional[str]: None and '' are false
Truthy(v) == v # None /\ v # <<>>

\* [A-Z]\.\s*
Initial == Cat(<<Cls(UpperSet), Cls({"."}), Star(Cls(SpaceSet))>>)
\* [A-Z]\.\s*(?:[A-Z]\.\s*)?[A-Z][a-z]+
InitialsSurname == Cat(<<Initial, Opt(Initial), Cls(UpperSet), Plus(Cls(LowerSet))>>)
\* \s+(?:and|,)\s+
NameSep == Cat(<<Plus(Cls(SpaceSet)), Alt(<<Lit(<<"a","n","d">>), Cls({","})>>), Plus(Cls(SpaceSet))>>)
\* [A-Z][a-z]+\s+[A-Z][a-z]+
FirstLast ==
  Cat(<<Cls(UpperSet), Plus(Cls(LowerSet)), Plus(Cls(SpaceSet)),
        Cls(UpperSet), Plus(Cls(LowerSet))>>)
\* [A-Z]\.\s*(?:[A-Z]\.\s*)?[A-Z][a-z]+(?:\s+(?:Jr\.|Sr\.|III|II))?
InitialsSurnameSuffix ==
  Cat(<<InitialsSurname,
        Opt(Cat(<<Plus(Cls(SpaceSet)),
                  Alt(<<Lit(<<"J","r",".">>), Lit(<<"S","r",".">>), Lit(<<"I","I","I">>), Lit(<<"I","I">>)>>)>>))>>)
\* ^(name(?:sep name)*)
NameList(name) == Cat(<<Bol, Grp(1, Cat(<<name, Star(Cat(<<NameSep, name>>))>>))>>)
author_patterns ==
  << NameList(InitialsSurname), NameList(FirstLast), NameList(InitialsSurnameSuffix) >>

\* re.sub(r'\s*,\s*', ' and ', authors), then re.sub(r'\s+and\s+', ' and ', authors)
NormalizeSeparators(authors) ==
  LET a1 == re_sub_const(Cat(<<Star(Cls(SpaceSet)), Cls({","}), Star(Cls(SpaceSet))>>),
                         <<" ","a","n","d"," ">>, authors, FALSE)
  IN  re_sub_const(Cat(<<Plus(Cls(SpaceSet)), Lit(<<"a","n","d">>), Plus(Cls(SpaceSet))>>),
                   <<" ","a","n","d"," ">>, a1, FALSE)

\* the fallback: the text before the first period, if it looks like names
AuthorsFallback(clean_text) ==
  LET first_part == strip(split_on(clean_text, ".")[1])
  IN  IF re_match(Cat(<<Bol, Cls(UpperSet)>>), first_part, FALSE).ok
         /\ Len(first_part) < 100
         /\ Contains(<<" ">>, first_part)
         /\ re_search(Cat(<<Cls(UpperSet), Plus(Cls(LowerSet))>>), first_part, FALSE).ok
      THEN strip(first_part)
      ELSE None

\* lines 231 to 238, match the first author pattern that matches (or Fail)
AuthorsFrom(clean_text, match) ==
  IF match.ok
  THEN strip(NormalizeSeparators(group(clean_text, match, 1)))
  ELSE AuthorsFallback(clean_text)

_extract_authors(text) ==
  AuthorsFrom(replace(text, "~", " "),
              FirstOk([k \in DOMAIN author_patterns |->
                         re_match(author_patterns[k], replace(text, "~", " "), FALSE)]))

(***************************************************************************)
(* BBLParser._extract_title                                                *)
(***************************************************************************)
\* \\(?:emph|textit)\{([^}]+)\}
italic_pattern ==
  Cat(<< Cls({"\\"}), Alt(<<Lit(<<"e","m","p","h">>), Lit(<<"t","e","x","t","i","t">>)>>),
         Cls({"{"}), Grp(1, Plus(NCls({"}"}))), Cls({"}"}) >>)
\* [<dq><bq>]([^<dq><bq>]+)[<dq><bq>], <dq> the double quote, <bq> the backquote
quote_pattern ==
  Cat(<< Cls({"<dq>", "<bq>"}), Grp(1, Plus(NCls({"<dq>", "<bq>"}))), Cls({"<dq>", "<bq>"}) >>)
\* \\[a-zA-Z]+\{([^}]+)\}
command_pattern ==
  Cat(<< Cls({"\\"}), Plus(Cls(UpperSet \cup LowerSet)),
         Cls({"{"}), Grp(1, Plus(NCls({"}"}))), Cls({"}"}) >>)
\* \{([^}]+)\}
braces_pattern == Cat(<< Cls({"{"}), Grp(1, Plus(NCls({"}"}))), Cls({"}"}) >>)

\* the vocabulary that disqualifies a part from being the title
TitleStopWords ==
  << <<"j","o","u","r","n","a","l">>, <<"c","o","n","f","e","r","e","n","c","e">>, <<"p","r","o","c","e","e","d","i","n","g","s">>, <<"v","o","l">>,
     <<"p","p">>, <<"p","u","b","l","i","s","h","e","r">>, <<"p","r","e","s","s">>, <<"i","s","b","n">> >>

\* len(part) > 10
MinTitleLen == 10

\* the loop over working_text.split('.'): the first substantial part
RECURSIVE TitleFromParts(_)
TitleFromParts(parts) ==
  IF parts = <<>> THEN None
  ELSE LET part == strip(Head(parts))
       IN  IF Len(part) > MinTitleLen
              /\ ~ \E k \in DOMAIN TitleStopWords : Contains(TitleStopWords[k], lower(part))
           THEN strip(re_sub_group1(braces_pattern,
                                    re_sub_group1(command_pattern, part, FALSE), FALSE))
           ELSE TitleFromParts(Tail(parts))

\* text[first_period + 1:].strip() when authors were found and a period follows
TitleStart(text, has_authors) ==
  LET first_period == find(text, ".")
  IN  IF has_authors /\ first_period > 0
      THEN strip(SubSeq(text, first_period + 2, Len(text)))
      ELSE text

\* lines 272 to 293, on the working text and its two matches
TitleFrom(working_text, emph_match, quote_match) ==
  IF emph_match.ok THEN group(working_text, emph_match, 1)
  ELSE IF quote_match.ok THEN group(working_text, quote_match, 1)
  ELSE TitleFromParts(split_on(working_text, "."))
TitleIn(working_text) ==
  TitleFrom(working_text, re_search(italic_pattern, working_text, FALSE),
            re_search(quote_pattern, working_text, FALSE))

_extract_title(text, has_authors) ==
  TitleIn(re_sub_const(newblock_pattern, <<>>, TitleStart(text, has_authors), FALSE))

(***************************************************************************)
(* BBLParser._extract_journal, _extract_booktitle, _extract_publisher      *)
(***************************************************************************)
\* (?:journal[:\s]+|in[:\s]+)([^,\d]+)(?:,|\d), re.IGNORECASE
journal_pattern ==
  Cat(<< Alt(<< Cat(<<Lit(<<"j","o","u","r","n","a","l">>), Plus(Cls(SpaceSet \cup {":"}))>>),
                Cat(<<Lit(<<"i","n">>), Plus(Cls(SpaceSet \cup {":"}))>>) >>),
         Grp(1, Plus(NCls(DigitSet \cup {","}))),
         Alt(<<Cls({","}), Cls(DigitSet)>>) >>)

JournalFrom(text, journal_match, italic_match) ==
  LET journal == group(text, italic_match, 1)
  IN  IF journal_match.ok THEN strip(group(text, journal_match, 1))
      ELSE IF italic_match.ok
              /\ ~ Contains(<<"p","r","o","c","e","e","d","i","n","g","s">>, lower(journal))
              /\ ~ Contains(<<"c","o","n","f","e","r","e","n","c","e">>, lower(journal))
      THEN journal
      ELSE None

_extract_journal(text) ==
  JournalFrom(text, re_search(journal_pattern, text, TRUE),
              re_search(italic_pattern, text, FALSE))

\* label[:\s]+([^,]+)(?:,|\.), re.IGNORECASE
LabelledPattern(label) ==
  Cat(<< label, Plus(Cls(SpaceSet \cup {":"})),
         Grp(1, Plus(NCls({","}))), Alt(<<Cls({","}), Cls({"."})>>) >>)
\* (?:In|in)[:\s]+...   and   Proceedings of[:\s]+...
booktitle_patterns ==
  << LabelledPattern(Alt(<<Lit(<<"I","n">>), Lit(<<"i","n">>)>>)),
     LabelledPattern(Lit(<<"P","r","o","c","e","e","d","i","n","g","s"," ","o","f">>)) >>

\* m.group(1).strip() of an Optional match m, None when there is no match
Stripped1Of(s, m) == IF m.ok THEN strip(group(s, m, 1)) ELSE None

_extract_booktitle(text) ==
  Stripped1Of(text, FirstOk([k \in DOMAIN booktitle_patterns |->
                               re_search(booktitle_patterns[k], text, TRUE)]))

publishers ==
  << <<"S","p","r","i","n","g","e","r">>, <<"E","l","s","e","v","i","e","r">>, <<"W","i","l","e","y">>, <<"I","E","E","E">>, <<"A","C","M">>, <<"M","I","T"," ","P","r","e","s","s">>,
     <<"C","a","m","b","r","i","d","g","e"," ","U","n","i","v","e","r","s","i","t","y"," ","P","r","e","s","s">>, <<"O","x","f","o","r","d"," ","U","n","i","v","e","r","s","i","t","y"," ","P","r","e","s","s">>,
     <<"A","c","a","d","e","m","i","c"," ","P","r","e","s","s">>, <<"A","d","d","i","s","o","n","-","W","e","s","l","e","y">>, <<"M","c","G","r","a","w","-","H","i","l","l">> >>

\* (?:publisher|press)[:\s]+([^,]+)(?:,|\.), re.IGNORECASE
publisher_pattern == LabelledPattern(Alt(<<Lit(<<"p","u","b","l","i","s","h","e","r">>), Lit(<<"p","r","e","s","s">>)>>))

_extract_publisher(text) ==
  LET text_lower == lower(text)
      hits       == {k \in DOMAIN publishers : Contains(lower(publishers[k]), text_lower)}
  IN  IF hits # {} THEN publishers[CHOOSE k \in hits : \A j \in hits : k <= j]
      ELSE Stripped1Of(text, re_search(publisher_pattern, text, TRUE))

(***************************************************************************)
(* BBLParser._extract_fields                                               *)
(***************************************************************************)
FieldNames ==
  {"author", "title", "year", "pages", "volume", "number", "doi", "url", "isbn",
   "journal", "booktitle", "publisher"}

\* line 173: f"{pages_match.group(1)}--{pages_match.group(2)}"
PagesOf(s, m) ==
  IF m.ok THEN group(s, m, 1) \o <<"-", "-">> \o group(s, m, 2) ELSE None

\* the pattern and the flag of the fields read off one pattern
FieldPattern(k) ==
  CASE k = "year"   -> <<year_pattern, FALSE>>
    [] k = "pages"  -> <<pages_pattern, FALSE>>
    [] k = "volume" -> <<volume_pattern, TRUE>>
    [] k = "number" -> <<number_pattern, TRUE>>
    [] k = "doi"    -> <<doi_pattern, TRUE>>
    [] k = "url"    -> <<url_pattern, FALSE>>
    [] k = "isbn"   -> <<isbn_pattern, TRUE>>
FieldOf(k, s, m) ==
  CASE k \in {"year", "url"} -> Group0Of(s, m)
    [] k = "pages"           -> PagesOf(s, m)
    [] OTHER                 -> Group1Of(s, m)

\* what the extractor of field k finds in text, None when it finds nothing
Extracted(k, text) ==
  CASE k = "author"    -> _extract_authors(text)
    [] k = "title"     -> IF Truthy(_extract_authors(text))
                          THEN _extract_title(text, TRUE)
                          ELSE _extract_title(text, FALSE)
    [] k = "journal"   -> _extract_journal(text)
    [] k = "booktitle" -> _extract_booktitle(text)
    [] k = "publisher" -> _extract_publisher(text)
    [] OTHER -> FieldOf(k, text, re_search(FieldPattern(k)[1], text, FieldPattern(k)[2]))

\* the extraction without the tests on the entry type
FieldApplies_Always(k, entry_type) == TRUE

\* lines 200 and 204: the entry types for which field k is extracted at all
FieldApplies(k, entry_type) ==
  CASE k = "journal"   -> entry_type = "article"
    [] k = "booktitle" -> entry_type \in {"inproceedings", "incollection"}
    [] OTHER           -> TRUE

\* the value _extract_fields assigns to fields[k], None when it assigns none:
\* every assignment is guarded by "if <what the extractor found>:"
Found(v) == IF Truthy(v) THEN v ELSE None
FieldValue(k, text, entry_type) ==
  IF FieldApplies(k, entry_type) THEN Found(Extracted(k, text)) ELSE None

\* the dictionary of the assigned fields
Assigned(value) == [k \in {f \in DOMAIN value : value[f] # None} |-> value[k]]

_extract_fields(text, entry_type) ==
  Assigned([k \in FieldNames |-> FieldValue(k, text, entry_type)])

(***************************************************************************)
(* BBLParser._parse_bibitem: an Optional[BibEntry], here the empty list for *)
(* None and the list of the one entry otherwise                            *)
(***************************************************************************)
NoEntry == <<>>

\* lines 86 to 91: BibEntry(entry_type=..., cite_key=..., fields=..., raw_text=text)
BibEntry(cite_key, text, entry_type) ==
  [entry_type |-> entry_type,
   cite_key   |-> cite_key,
   fields     |-> _extract_fields(text, entry_type),
   raw_text   |-> text]

\* the same without the test of lines 77 and 78 on the empty text
ParseCleaned_NoEmptyCheck(cite_key, text) ==
  <<BibEntry(cite_key, text, _detect_entry_type(text))>>

\* lines 77 to 91, on the cleaned text
ParseCleaned(cite_key, text) ==
  IF strip(text) = <<>> THEN NoEntry
  ELSE <<BibEntry(cite_key, text, _detect_entry_type(text))>>

_parse_bibitem(cite_key, raw, label) == ParseCleaned(cite_key, _clean_text(raw))

(***************************************************************************)
(* The input documents.  A document is a list of units, each a             *)
(* citation-start marker followed by a body:                               *)
(*   plain     \bibitem{key}body                                           *)
(*   label     \bibitem[label]{key}body                                    *)
(*   unclosed  \bibitem{key body       (no closing key delimiter)          *)
(*   nokey     \bibitem{}body          (no parseable key)                  *)
(***************************************************************************)
Unit(marker, key, body) == [marker |-> marker, key |-> key, body |-> body]

RenderUnit(u) ==
  CASE u.marker = "plain" ->
         <<"\\","b","i","b","i","t","e","m">> \o <<"{">> \o u.key \o <<"}">> \o u.body
    [] u.marker = "label" ->
         <<"\\","b","i","b","i","t","e","m">> \o <<"[", "L", "]", "{">> \o u.key \o <<"}">> \o u.body
    [] u.marker = "unclosed" ->
         <<"\\","b","i","b","i","t","e","m">> \o <<"{">> \o u.key \o u.body
    [] u.marker = "nokey" ->
         <<"\\","b","i","b","i","t","e","m">> \o <<"{", "}">> \o u.body

RECURSIVE RenderDoc(_)
RenderDoc(d) == IF d = <<>> THEN <<>> ELSE RenderUnit(Head(d)) \o RenderDoc(Tail(d))

\* the sequences of at most n elements of S
SeqsUpTo(S, n) == UNION {[1..k -> S] : k \in 0..n}

\* documents of several units: the markers, with short bodies (a citation,
\* only white space, only a block separator and a period)
MaxUnits == 2
SegMarkers ==
  { <<"plain", <<"a">>>>, <<"label", <<"b">>>>, <<"unclosed", <<"c">>>>, <<"nokey", <<>>>> }
SegBodies == { <<" ","X","y",".">>, <<" ">>, <<" ","\\","n","e","w","b","l","o","c","k"," ",".">> }
SegUnits  == { Unit(m[1], m[2], b) : m \in SegMarkers, b \in SegBodies }
DocsSeg   == SeqsUpTo(SegUnits, MaxUnits)

\* documents of one well-formed unit whose body is a citation: the words that
\* the classifier and the extractors look for, in every order, and three
\* whole citations
MaxWords == 2
Words ==
  << <<"P","h","D"," ","t","h","e","s","i","s">>,
     <<"M","a","s","t","e","r"," ","t","h","e","s","i","s">>,
     <<"T","e","c","h","."," ","R","e","p",".">>,
     <<"C","o","n","f","e","r","e","n","c","e">>,
     <<"i","n",":"," ","A",",">>,
     <<"I","n",":"," ","A",",">>,
     <<"I","N",":"," ","A",",">>,
     <<"I","n"," ","A",",">>,
     <<"i","n"," ","A",",">>,
     <<"e","d","i","t","o","r">>,
     <<"e","d","s",".">>,
     <<"J","o","u","r","n","a","l"," ","B",",">>,
     <<"h","t","t","p",":","/","/","a",".","b">>,
     <<"P","r","e","s","s">>,
     <<"1","2","-","3","4">>,
     <<"X","y">> >>
KnuthBody ==
  <<" ","D","."," ","E","."," ","K","n","u","t","h"," ","a","n","d"," ","R","."," ","L",".",
    " ","G","r","a","h","a","m","."," ","C","o","n","c","r","e","t","e"," ",
    "M","a","t","h","e","m","a","t","i","c","s","."," ",
    "A","d","d","i","s","o","n","-","W","e","s","l","e","y",","," ","1","9","9","4",".">>
BodySamples ==
  { KnuthBody,
    <<" ","j","o","u","r","n","a","l",":"," ",","," ","5">>,
    <<" ","p","r","e","s","s",":"," ",",">> }
\* the words numbered ws, each after a space
RECURSIVE WordsBody(_)
WordsBody(ws) ==
  IF ws = <<>> THEN <<>> ELSE <<" ">> \o Words[Head(ws)] \o WordsBody(Tail(ws))
Bodies   == BodySamples \cup {WordsBody(ws) : ws \in SeqsUpTo(DOMAIN Words, MaxWords) \ {<<>>}}
DocsBody == { <<Unit("plain", <<"k">>, b)>> : b \in Bodies }

\* documents of one well-formed unit whose body is made of emphasis and bold
\* wrappers, periods and spaces, and four bodies with nested or repeated wrappers
MaxFrags == 4
Frags ==
  { <<"\\","e","m","p","h","{">>, <<"\\","t","e","x","t","b","f","{">>,
    <<"}">>, <<".">>, <<" ">>, <<"a">> }
WrapperSamples ==
  { <<"\\","e","m","p","h","{","\\","e","m","p","h","{","a","}","}">>,
    <<"\\","t","e","x","t","b","f","{","\\","t","e","x","t","b","f","{","a","}","}">>,
    <<"\\","e","m","p","h","{","\\","t","e","x","t","b","f","{","a","}","}">>,
    <<"\\","e","m","p","h","{","a","}","\\","e","m","p","h","{","a","}">> }
FragsBodies == WrapperSamples \cup {Flatten(fs) : fs \in SeqsUpTo(Frags, MaxFrags)}
DocsClean   == { <<Unit("plain", <<"k">>, b)>> : b \in FragsBodies }

(***************************************************************************)
(* BBLParser.parse_file, as the program runs it                            *)
(***************************************************************************)
VARIABLES
  doc,      \* the document the file holds (the input)
  pc,       \* where parse_file is: "idle", "loop", "done"
  content,  \* f.read()
  items,    \* self.bibitem_pattern.split(content)
  i,        \* the loop variable of line 60 (an index as Python counts)
  entries,  \* self.entries
  \* main of bbl2bib.py
  input_files,  \* args.input_files, each with what the run finds of it
  output,       \* whether args.output is given
  overwrite,    \* args.overwrite
  verbose,      \* args.verbose
  cli_pc,       \* where main is: "off", "loop", "returned", "exited", "crashed"
  file_no,      \* the place in args.input_files of the file the loop is at
  log,          \* what the logger was given: level and place of the file
  outputs,      \* the calls of bib_writer.write_file that returned
  traceback,    \* whether traceback.print_exc() was called
  exit_code,    \* the exit status of the process, None while it runs
  \* one BBLParser used for several files
  calls,         \* the documents of the files parse_file is called on, in order
  call_no,       \* how many of the calls have returned
  heap,          \* the list objects there are, each with its elements
  self_entries,  \* self.entries: the place in heap of the list it refers to
  returned       \* the lists the calls returned, as places in heap

cli_vars == <<input_files, output, overwrite, verbose, cli_pc, file_no, log,
              outputs, traceback, exit_code>>
reuse_vars == <<calls, call_no, heap, self_entries, returned>>
vars == <<doc, pc, content, items, i, entries, cli_vars, reuse_vars>>

\* main is not running
CliOff ==
  /\ input_files = <<>>
  /\ output = FALSE
  /\ overwrite = FALSE
  /\ verbose = FALSE
  /\ cli_pc = "off"
  /\ file_no = 0
  /\ log = <<>>
  /\ outputs = <<>>
  /\ traceback = FALSE
  /\ exit_code = None

\* no parser is kept for several files
ReuseOff ==
  /\ calls = <<>>
  /\ call_no = 0
  /\ heap = <<>>
  /\ self_entries = 0
  /\ returned = <<>>

\* items[n] as Python counts
At(l, n) == l[n + 1]

\* lines 61 to 68: the entries after the iteration for index n
\* lines 67 and 68: if entry: self.entries.append(entry)
AppendEntry(es, entry) == IF entry # NoEntry THEN Append(es, entry[1]) ELSE es

Iteration(its, n, es) ==
  IF n + 1 < Len(its)
  THEN LET optional_label == IF Truthy(At(its, n)) THEN At(its, n) ELSE None
           cite_key       == At(its, n + 1)
           text           == IF n + 2 < Len(its) THEN At(its, n + 2) ELSE <<>>
       IN  AppendEntry(es, _parse_bibitem(cite_key, text, optional_label))
  ELSE es

InitIn(docs) ==
  /\ doc \in docs
  /\ pc = "idle"
  /\ content = <<>>
  /\ items = <<>>
  /\ i = 0
  /\ entries = <<>>
  /\ CliOff
  /\ ReuseOff

\* lines 51 to 57: reset the entries, read the file, split it by \bibitem
ParseFile ==
  /\ pc = "idle"
  /\ entries' = <<>>
  /\ content' = RenderDoc(doc)
  /\ items' = re_split2(bibitem_pattern, content')
  /\ i' = 1
  /\ pc' = "loop"
  /\ UNCHANGED <<doc, cli_vars, reuse_vars>>

\* lines 60 to 68: one iteration of for i in range(1, len(items), 3)
ProcessItem ==
  /\ pc = "loop"
  /\ i < Len(items)
  /\ entries' = Iteration(items, i, entries)
  /\ i' = i + 3
  /\ UNCHANGED <<doc, pc, content, items, cli_vars, reuse_vars>>

\* line 70: return self.entries
Return ==
  /\ pc = "loop"
  /\ ~ (i < Len(items))
  /\ pc' = "done"
  /\ UNCHANGED <<doc, content, items, i, entries, cli_vars, reuse_vars>>

Next == ParseFile \/ ProcessItem \/ Return

\* the three families of documents
Init == InitIn(DocsSeg)
Spec == Init /\ [][Next]_vars

InitBody == InitIn(DocsBody)
SpecBody == InitBody /\ [][Next]_vars

InitClean == InitIn(DocsClean)
SpecClean == InitClean /\ [][Next]_vars

\* parse_file as a function of the file's content: the loop run to its end
RECURSIVE LoopFrom(_, _, _)
LoopFrom(its, n, es) ==
  IF n < Len(its) THEN LoopFrom(its, n + 3, Iteration(its, n, es)) ELSE es
parse_file(text) == LoopFrom(re_split2(bibitem_pattern, text), 1, <<>>)

(***************************************************************************)
(* main of bbl2bib.py: the loop over args.input_files.  An input file is   *)
(* given with what the run finds of it: whether it exists, whether its     *)
(* suffix is .bbl, whether its output file exists, the answer typed at the *)
(* prompt (None for the end of the input), whether open() succeeds, the    *)
(* document it holds and whether the writer succeeds                       *)
(***************************************************************************)
InputFile(exists, bbl, out_exists, response, readable, document, writable) ==
  [exists |-> exists, bbl |-> bbl, out_exists |-> out_exists, response |-> response,
   readable |-> readable, document |-> document, writable |-> writable]

MaxFiles == 2
InputFiles ==
  LET OneUnit == <<Unit("plain", <<"a">>, <<" ","X","y",".">>)>>
  IN
  { InputFile(FALSE, TRUE,  FALSE, <<"n">>, TRUE,  OneUnit, TRUE),
    InputFile(TRUE,  TRUE,  FALSE, <<"n">>, TRUE,  OneUnit, TRUE),
    InputFile(TRUE,  FALSE, FALSE, <<"n">>, TRUE,  OneUnit, TRUE),
    InputFile(TRUE,  TRUE,  FALSE, <<"n">>, FALSE, OneUnit, TRUE),
    InputFile(TRUE,  TRUE,  FALSE, <<"n">>, TRUE,  <<>>,    TRUE),
    InputFile(TRUE,  TRUE,  FALSE, <<"n">>, TRUE,  OneUnit, FALSE),
    InputFile(TRUE,  TRUE,  TRUE,  <<"n">>, TRUE,  OneUnit, TRUE),
    InputFile(TRUE,  TRUE,  TRUE,  <<"Y">>, TRUE,  OneUnit, TRUE),
    InputFile(TRUE,  TRUE,  TRUE,  None,    TRUE,  OneUnit, TRUE),
    InputFile(TRUE,  FALSE, TRUE,  <<"y">>, FALSE, OneUnit, TRUE) }

\* parse_file is not running
ParserOff ==
  /\ doc = <<>>
  /\ pc = "off"
  /\ content = <<>>
  /\ items = <<>>
  /\ i = 0
  /\ entries = <<>>

\* lines 62 to 65: the arguments are parsed (nargs='+': at least one file)
InitCli ==
  /\ ParserOff
  /\ ReuseOff
  /\ input_files \in SeqsUpTo(InputFiles, MaxFiles) \ {<<>>}
  /\ output \in BOOLEAN
  /\ overwrite \in BOOLEAN
  /\ verbose \in BOOLEAN
  /\ cli_pc = "loop"
  /\ file_no = 1
  /\ log = <<>>
  /\ outputs = <<>>
  /\ traceback = FALSE
  /\ exit_code = None

\* the file the loop is at
InLoop == cli_pc = "loop" /\ file_no <= Len(input_files)
Cur    == input_files[file_no]

\* logger.error, logger.warning, logger.info
Logged(lg, level, msg) == Append(lg, [level |-> level, file |-> file_no, msg |-> msg])

\* lines 75 and 76: the warning for a suffix that is not .bbl
SuffixChecked(lg) ==
  IF ~ Cur.bbl THEN Logged(lg, "warning", "no .bbl extension") ELSE lg

\* lines 79 to 82
OutputPath ==
  IF output /\ Len(input_files) = 1
  THEN [given |-> TRUE, of |-> 0]
  ELSE [given |-> FALSE, of |-> file_no]

\* lines 85 to 87: the prompt is shown, and the answer is y
Asked == Cur.out_exists /\ ~ overwrite
\* the loop body comes to the try statement of line 91
Tried == Cur.exists /\ (Asked => Cur.response # None /\ lower(Cur.response) = <<"y">>)

\* line 92
Processing(lg) == Logged(SuffixChecked(lg), "info", "Processing")

\* lines 95 and 96: a new parser's parse_file on the file
Parsed == parse_file(RenderDoc(Cur.document))

\* BIBWriter.write_file(output_path, entries): it returns or it raises
write_file(f, output_path, es) ==
  IF f.writable THEN <<[path |-> output_path, entries |-> es]>> ELSE <<>>

\* the next turn of the loop
Continue ==
  /\ file_no' = file_no + 1
  /\ UNCHANGED <<input_files, output, overwrite, verbose, cli_pc, traceback, exit_code>>
  /\ UNCHANGED <<doc, pc, content, items, i, entries, reuse_vars>>

\* lines 71 to 73: the file does not exist
Missing ==
  /\ InLoop
  /\ ~ Cur.exists
  /\ log' = Logged(log, "error", "does not exist")
  /\ UNCHANGED outputs
  /\ Continue

\* lines 85 to 89: the output exists and the answer is not y
Declined ==
  /\ InLoop
  /\ Cur.exists /\ Asked /\ Cur.response # None /\ lower(Cur.response) # <<"y">>
  /\ log' = Logged(SuffixChecked(log), "info", "Skipping")
  /\ UNCHANGED outputs
  /\ Continue

\* line 86: input() meets the end of the input; the EOFError is raised outside
\* the try statement and ends the process
PromptEnded ==
  /\ InLoop
  /\ Cur.exists /\ Asked /\ Cur.response = None
  /\ log' = SuffixChecked(log)
  /\ cli_pc' = "crashed"
  /\ exit_code' = 1
  /\ traceback' = TRUE
  /\ UNCHANGED <<input_files, output, overwrite, verbose, file_no, outputs>>
  /\ UNCHANGED <<doc, pc, content, items, i, entries, reuse_vars>>

\* lines 98 to 100: no entries
NoEntries ==
  /\ InLoop
  /\ Tried /\ Cur.readable /\ Parsed = <<>>
  /\ log' = Logged(Processing(log), "warning", "No bibliography entries")
  /\ UNCHANGED outputs
  /\ Continue

\* lines 102 to 108: the file is converted
Converted ==
  /\ InLoop
  /\ Tried /\ Cur.readable /\ Parsed # <<>>
  /\ write_file(Cur, OutputPath, Parsed) # <<>>
  /\ log' = Logged(Logged(Processing(log), "info", "Found"), "info", "Successfully converted")
  /\ outputs' = outputs \o write_file(Cur, OutputPath, Parsed)
  /\ Continue

\* the except clause without sys.exit(1): the error is logged, the loop goes on
Failed_Continue ==
  /\ InLoop
  /\ Tried
  /\ \/ ~ Cur.readable
     \/ Parsed # <<>> /\ write_file(Cur, OutputPath, Parsed) = <<>>
  /\ log' = Logged(IF Cur.readable THEN Logged(Processing(log), "info", "Found")
                                   ELSE Processing(log),
                   "error", "Error processing")
  /\ UNCHANGED outputs
  /\ Continue

\* lines 110 to 115: open() or write_file raised
Failed ==
  /\ InLoop
  /\ Tried
  /\ \/ ~ Cur.readable
     \/ Parsed # <<>> /\ write_file(Cur, OutputPath, Parsed) = <<>>
  /\ log' = Logged(IF Cur.readable THEN Logged(Processing(log), "info", "Found")
                                   ELSE Processing(log),
                   "error", "Error processing")
  /\ traceback' = verbose
  /\ cli_pc' = "exited"
  /\ exit_code' = 1
  /\ UNCHANGED <<input_files, output, overwrite, verbose, file_no, outputs>>
  /\ UNCHANGED <<doc, pc, content, items, i, entries, reuse_vars>>

\* the loop is over: main returns
Finished ==
  /\ cli_pc = "loop"
  /\ file_no > Len(input_files)
  /\ cli_pc' = "returned"
  /\ exit_code' = 0
  /\ UNCHANGED <<input_files, output, overwrite, verbose, file_no, log, outputs, traceback>>
  /\ UNCHANGED <<doc, pc, content, items, i, entries, reuse_vars>>

NextCli ==
  Missing \/ Declined \/ PromptEnded \/ NoEntries \/ Converted \/ Failed \/ Finished
SpecCli == InitCli /\ [][NextCli]_vars

(***************************************************************************)
(* One BBLParser whose parse_file is called on several files, one call     *)
(* after the other.  Lists are objects: heap holds their elements, and     *)
(* self.entries and the results of the calls refer to them by their place  *)
(***************************************************************************)
MaxCalls == 3
ReuseDocs ==
  { <<>>,
    <<Unit("plain", <<"a">>, <<" ","X","y",".">>)>>,
    <<Unit("label", <<"b">>, <<" ","X","y",".">>), Unit("plain", <<"a">>, <<" ">>)>>,
    <<Unit("plain", <<"a">>, <<" ","X","y",".">>), Unit("plain", <<"a">>, <<" ","P","r","e","s","s">>)>>,
    <<Unit("unclosed", <<"c">>, <<" ","X","y",".">>), Unit("plain", <<"b">>, <<" ","1","2","-","3","4">>)>> }

\* lines 24 to 26: __init__ sets self.entries to a new empty list
InitReuse ==
  /\ ParserOff
  /\ CliOff
  /\ calls \in SeqsUpTo(ReuseDocs, MaxCalls) \ {<<>>}
  /\ call_no = 0
  /\ heap = << <<>> >>
  /\ self_entries = 1
  /\ returned = <<>>

\* self.entries left as it is, on the list of the call before
EmptyList_Missing(h, self) == [heap |-> h, ref |-> self]

\* line 51: self.entries = [], a new list object
EmptyList(h, self) == [heap |-> Append(h, <<>>), ref |-> Len(h) + 1]

\* lines 53 to 68: the appends of the loop go to the list self.entries refers to
Appended(h, self, text) ==
  [h EXCEPT ![self] = LoopFrom(re_split2(bibitem_pattern, text), 1, h[self])]

\* lines 51 to 70: one call of parse_file, from its first line to its return
Call ==
  /\ cli_pc = "off" /\ pc = "off"
  /\ call_no < Len(calls)
  /\ self_entries' = EmptyList(heap, self_entries).ref
  /\ heap' = Appended(EmptyList(heap, self_entries).heap, self_entries',
                      RenderDoc(calls[call_no + 1]))
  /\ returned' = Append(returned, self_entries')
  /\ call_no' = call_no + 1
  /\ UNCHANGED <<calls, doc, pc, content, items, i, entries, cli_vars>>

SpecReuse == InitReuse /\ [][Call]_vars

(***************************************************************************)
(* The properties                                                          *)
(***************************************************************************)
\* a marker the segmenter is meant to accept
WellFormed(u) == u.marker \in {"plain", "label"}
\* what a list of entries says of each unit: key, cleaned text and fields
Outcomes(es) == [k \in DOMAIN es |-> <<es[k].cite_key, es[k].raw_text, es[k].fields>>]
Keys(es)     == [k \in DOMAIN es |-> es[k].cite_key]
UnitKeys(d)  == [k \in DOMAIN d |-> d[k].key]

\* C1: a marker without a closing key delimiter, or without a parseable key,
\* contributes no record, and the records of the other units (key, cleaned
\* text, fields) are those of the document without the malformed units
C1_MalformedMarkerIsolated ==
  pc = "done" =>
    Outcomes(entries) = Outcomes(parse_file(RenderDoc(SelectSeq(doc, WellFormed))))

\* C2: cleaning is idempotent: cleaning the cleaned text of a record again
\* leaves it as it is
C2_CleanIdempotent ==
  pc = "done" =>
    \A k \in DOMAIN entries : _clean_text(entries[k].raw_text) = entries[k].raw_text

\* rule 5 as the specification words it: every test on the lowered text
Rule5Insensitive(text) ==
  LET text_lower == lower(text)
  IN  \/ Contains(<<"i","n",":">>, text_lower)
      \/ /\ Contains(<<"i","n"," ">>, text_lower)
         /\ \/ Contains(<<"e","d","i","t","o","r">>, text_lower)
            \/ Contains(<<"e","d","s",".">>, text_lower)
\* rule n of the specification's list
Rule(n, text) == IF n = 5 THEN Rule5Insensitive(text) ELSE BranchCond(n, text)
RuleType(n) ==
  CASE n = 1 -> "phdthesis" [] n = 2 -> "mastersthesis" [] n = 3 -> "techreport"
    [] n = 4 -> "inproceedings" [] n = 5 -> "incollection" [] n = 6 -> "article"
    [] n = 7 -> "misc" [] n = 8 -> "book"
Least(S) == CHOOSE n \in S : \A m \in S : n <= m

\* C3: first match wins: when the text of a record satisfies two of the rules
\* 1-4, 6, 7, 8 the type is that of the lowest of them (unless it is
\* incollection, the type of rule 5), and the else branch with the volume
\* and page-range patterns is reached only when none of rules 1-8 matches
C3_FirstMatchWins ==
  pc = "done" =>
    \A k \in DOMAIN entries :
      LET text    == entries[k].raw_text
          matched == {n \in {1, 2, 3, 4, 6, 7, 8} : Rule(n, text)}
      IN  /\ Cardinality(matched) >= 2 /\ entries[k].entry_type # "incollection"
               => entries[k].entry_type = RuleType(Least(matched))
          /\ Branch(text) = LastBranch + 1 => \A n \in 1..8 : ~ Rule(n, text)

\* C4: when none of rules 1-4 matches, the type is incollection exactly when
\* the text contains "in:", or "in " with "editor" or "eds.", whatever the case
\* of the letters
C4_InCollectionAnyCase ==
  pc = "done" =>
    \A k \in DOMAIN entries :
      LET text == entries[k].raw_text
      IN  (\A n \in 1..4 : ~ Rule(n, text))
            => (entries[k].entry_type = "incollection" <=> Rule5Insensitive(text))

\* C5: the unit whose body is the Knuth and Graham citation gives a book with
\* author "D. E. Knuth and R. L. Graham", title "Concrete Mathematics",
\* publisher "Addison-Wesley" and year "1994"
C5_KnuthRecord ==
  pc = "done" /\ doc = <<Unit("plain", <<"k">>, KnuthBody)>> =>
    /\ Len(entries) = 1
    /\ entries[1].entry_type = "book"
    /\ {"author", "title", "publisher", "year"} \subseteq DOMAIN entries[1].fields
    /\ entries[1].fields["author"] = <<"D","."," ","E","."," ","K","n","u","t","h"," ","a","n","d"," ","R","."," ","L","."," ","G","r","a","h","a","m">>
    /\ entries[1].fields["title"] = <<"C","o","n","c","r","e","t","e"," ","M","a","t","h","e","m","a","t","i","c","s">>
    /\ entries[1].fields["publisher"] = <<"A","d","d","i","s","o","n","-","W","e","s","l","e","y">>
    /\ entries[1].fields["year"] = <<"1","9","9","4">>

EntryTypes ==
  {"article", "book", "inproceedings", "incollection", "techreport", "phdthesis",
   "mastersthesis", "misc"}

\* C6: the type of every record is one of the eight entry types
C6_EntryTypeTotal ==
  \A k \in DOMAIN entries : entries[k].entry_type \in EntryTypes
\* a record whose type the else branch chose by default
C6_Witness ==
  /\ pc = "done" /\ entries # <<>>
  /\ Branch(entries[1].raw_text) = LastBranch + 1
  /\ entries[1].entry_type = "misc"

\* C7: no field of a record is the empty string: a field whose extractor
\* found nothing, or found the empty string, has no key
C7_NoEmptyField ==
  \A k \in DOMAIN entries :
    /\ \A f \in DOMAIN entries[k].fields : entries[k].fields[f] # <<>>
    /\ \A f \in FieldNames :
         Extracted(f, entries[k].raw_text) \in {None, <<>>} => f \notin DOMAIN entries[k].fields
\* an article whose journal extractor matched and captured the empty string
C7_Witness ==
  /\ pc = "done" /\ entries # <<>>
  /\ entries[1].entry_type = "article"
  /\ Extracted("journal", entries[1].raw_text) = <<>>
  /\ "journal" \notin DOMAIN entries[1].fields

TypeAgnostic == FieldNames \ {"journal", "booktitle"}

\* C8: a record has the key journal only if it is an article and the key
\* booktitle only if it is an inproceedings or an incollection; each of the
\* other ten keys is there, with what its extractor found, whenever the
\* extractor found something, whatever the type
C8_TypeConditionalFields ==
  \A k \in DOMAIN entries :
    LET e == entries[k]
    IN  /\ "journal" \in DOMAIN e.fields => e.entry_type = "article"
        /\ "booktitle" \in DOMAIN e.fields => e.entry_type \in {"inproceedings", "incollection"}
        /\ \A f \in TypeAgnostic :
             Extracted(f, e.raw_text) \notin {None, <<>>}
               => f \in DOMAIN e.fields /\ e.fields[f] = Extracted(f, e.raw_text)
\* a record that is no article, in whose text the journal extractor finds a
\* journal, without the key journal and with one of the other keys
C8_Witness ==
  /\ pc = "done" /\ entries # <<>>
  /\ entries[1].entry_type # "article"
  /\ Extracted("journal", entries[1].raw_text) \notin {None, <<>>}
  /\ "journal" \notin DOMAIN entries[1].fields
  /\ DOMAIN entries[1].fields \cap TypeAgnostic # {}

\* a well-formed unit whose body does not clean to nothing
Yielding(u) == WellFormed(u) /\ _clean_text(u.body) # <<>>

\* C9: the keys of the records are the keys of the well-formed markers whose
\* cleaned body is not empty, in the order of the document, a key as many times
\* as it has such markers
C9_KeysInDocumentOrder ==
  pc = "done" => Keys(entries) = UnitKeys(SelectSeq(doc, Yielding))

\* the indices of the units the loop has been through
Handled == {n \in 1..(i - 1) : n % 3 = 1 /\ n + 1 < Len(items)}
UnitText(n) == IF n + 2 < Len(items) THEN At(items, n + 2) ELSE <<>>

\* C10: every record has a key and a cleaned text that are not empty; the
\* units whose body cleans to nothing give no record and each of the others
\* gives one, so that no unit gives more than one
C10_RecordsNonEmpty ==
  /\ \A k \in DOMAIN entries : entries[k].cite_key # <<>> /\ entries[k].raw_text # <<>>
  /\ Len(entries) = Cardinality({n \in Handled : _clean_text(UnitText(n)) # <<>>})
  /\ Len(entries) <= Cardinality(Handled)
\* a document of two units, one of which is dropped for its empty cleaned body
C10_Witness ==
  /\ pc = "done"
  /\ Cardinality(Handled) = 2
  /\ \E n \in Handled : _clean_text(UnitText(n)) = <<>>
  /\ Len(entries) = 1

\* reading or converting input file f raises inside the try statement
Raises(f) ==
  /\ f.exists
  /\ f.out_exists /\ ~ overwrite => f.response # None /\ lower(f.response) = <<"y">>
  /\ \/ ~ f.readable
     \/ parse_file(RenderDoc(f.document)) # <<>> /\ ~ f.writable
\* the loop body ran for the n-th input file, as the log shows
Visited(n) == \E k \in DOMAIN log : log[k].file = n
ErrorLogged(n, msg) ==
  \E k \in DOMAIN log : log[k] = [level |-> "error", file |-> n, msg |-> msg]

\* C11 as claimed: when the run is over, a document whose reading or conversion
\* failed has its error logged and every document after it was still processed
C11_FailureIsLocal ==
  cli_pc \in {"returned", "exited"} =>
    \A n \in DOMAIN input_files :
      Raises(input_files[n]) /\ Visited(n) =>
        /\ ErrorLogged(n, "Error processing")
        /\ \A m \in (n + 1)..Len(input_files) : Visited(m)

\* C11 as the code has it: a failure while reading or converting a document is
\* logged as an error and ends the run with exit status 1, no later document
\* being processed and nothing being written for the failed one; the loop goes
\* past a file only if it did not fail, a file that does not exist being
\* logged as an error and skipped; a run that returns has been through every
\* input file and exits with status 0
C11_FailureEndsRun ==
  /\ cli_pc = "exited" =>
       /\ file_no <= Len(input_files) /\ Raises(input_files[file_no])
       /\ log # <<>>
       /\ log[Len(log)] = [level |-> "error", file |-> file_no, msg |-> "Error processing"]
       /\ exit_code = 1
       /\ \A m \in (file_no + 1)..Len(input_files) : ~ Visited(m)
       /\ Len(outputs) < file_no
  /\ cli_pc \in {"loop", "returned", "exited"} =>
       \A n \in 1..(file_no - 1) :
         /\ ~ Raises(input_files[n])
         /\ ~ input_files[n].exists => ErrorLogged(n, "does not exist")
  /\ cli_pc = "returned" =>
       /\ exit_code = 0
       /\ \A n \in DOMAIN input_files : Visited(n)
\* the first of two input files failed: the run is over and the second file,
\* which exists, was not processed
C11_Witness ==
  /\ cli_pc = "exited"
  /\ Len(input_files) = 2 /\ file_no = 1
  /\ input_files[2].exists
  /\ ~ Visited(2)

\* C12: whatever calls of parse_file one parser has made, the list each call
\* returned holds the records of that call's document and no others, at its
\* return and after every later call
C12_NoStateBetweenCalls ==
  \A k \in DOMAIN returned :
    heap[returned[k]] = parse_file(RenderDoc(calls[k]))
\* after a second call, with records from both documents and the two results
\* not the same
C12_Witness ==
  /\ call_no >= 2
  /\ heap[returned[1]] # <<>>
  /\ heap[returned[2]] # <<>>
  /\ heap[returned[1]] # heap[returned[2]]
  /\ heap[returned[1]] = parse_file(RenderDoc(calls[1]))

====
